---- MODULE Spec2Model ----
(***************************************************************************)
(* The in-memory user / auth service of src/src/proto/services.py:         *)
(* UserService (register_new_user, authenticate_user, change_password,     *)
(* delete_current_user, load_user) and AuthService (login, logout) over    *)
(* the dictionary db["users"], with PasswordService.hash / verify.         *)
(***************************************************************************)
EXTENDS Integers, Sequences, FiniteSets, TLC

\* ------------------------------------------------------------------ bounds
\* Largest number of entries db["users"] is let to hold.
MaxUsers == 2
\* Number of calls of a behaviour that may draw random values.
MaxDraws == 2

Names == {"alice", "bob"}
Passwords == {"pw1", "pw2"}
\* The browsers (flask sessions) that call the service.
Clients == {"c1", "c2"}
\* The request threads that may run register_new_user side by side.
Threads == {"t1", "t2"}

VARIABLES
    users,      \* db["users"]: an insertion-ordered dict, a sequence of entries
    session,    \* per client, the user id flask_login keeps in its session (0: none)
    entropy,    \* the number of the next call that draws random values
    reg,        \* per thread, the position and locals of its register_new_user call
    last,       \* the last completed call: its arguments and what it returned
    deletedCreds, \* history: the id, name and password of every successful delete_current_user
    s3          \* the last call of S3Service.upload and how it ended

vars == <<users, session, entropy, reg, last, deletedCreds, s3>>

\* ------------------------------------------------------------ randomness
\* uuid.uuid4().hex and the salt of a new hash are random values of 122 bits and
\* more: a draw never repeats an earlier one.  entropy counts the calls that drew
\* so far, and the values a call draws are named by that count.
uuid4 == entropy

\* The salt passlib draws for a new hash.
new_salt == entropy

\* ------------------------------------------------------ PasswordService
\* passlib's pbkdf2_sha256 digest of a password under a salt.
pbkdf2(password, salt) == <<"pbkdf2", salt, password>>

\* PasswordService.hash: the algorithm-tagged digest under a newly drawn salt.
hash(password) ==
    [scheme |-> "pbkdf2_sha256", salt |-> new_salt, checksum |-> pbkdf2(password, new_salt)]

\* PasswordService.verify: recompute under the stored salt and compare.
verify(password, hashed_password) ==
    hashed_password.checksum = pbkdf2(password, hashed_password.salt)

\* ------------------------------------------------------------ the dict
\* Python's None, as the value a lookup returns.
None == [none |-> TRUE]

\* The User dataclass of the doctest: User(id, alternative_id, name, password, deleted).
User(id, alternative_id, name, password, deleted) ==
    [id |-> id, alternative_id |-> alternative_id, name |-> name,
     password |-> password, deleted |-> deleted]

\* db["users"].values(), in insertion order.
dict_values(d) == [i \in 1..Len(d) |-> d[i].value]

\* db["users"].get(key): the value stored under key, or None.
dict_get(d, key) ==
    IF \E i \in 1..Len(d) : d[i].key = key
    THEN d[CHOOSE i \in 1..Len(d) : d[i].key = key].value
    ELSE None

\* db["users"][key] = value: replaces in place, or appends a new entry.
dict_set(d, key, value) ==
    IF \E i \in 1..Len(d) : d[i].key = key
    THEN [i \in 1..Len(d) |-> IF d[i].key = key THEN [key |-> key, value |-> value] ELSE d[i]]
    ELSE Append(d, [key |-> key, value |-> value])

Max(S) == CHOOSE m \in S : \A x \in S : x <= m

\* ---------------------------------------------------------- UserService
\* The generator of authenticate_user and the list of register_new_user:
\* x.name == name and not x.deleted.
name_and_not_deleted(x, name) == x.name = name /\ ~x.deleted

\* The generator without its "not x.deleted" filter.
first_named_any(d, name) ==
    IF \E i \in 1..Len(d) : d[i].value.name = name
    THEN CHOOSE i \in 1..Len(d) :
            /\ d[i].value.name = name
            /\ \A j \in 1..(i - 1) : d[j].value.name # name
    ELSE 0

\* The position of the first value the generator of authenticate_user yields, 0 if
\* it yields none.
first_named(d, name) ==
    IF \E i \in 1..Len(d) : name_and_not_deleted(d[i].value, name)
    THEN CHOOSE i \in 1..Len(d) :
            /\ name_and_not_deleted(d[i].value, name)
            /\ \A j \in 1..(i - 1) : ~name_and_not_deleted(d[j].value, name)
    ELSE 0

\* The position of the entry authenticate_user returns, 0 for None: the first
\* non-deleted user of that name if its hash verifies; the loop breaks after it.
authenticate_index(d, name, password) ==
    LET i == first_named(d, name)
    IN  IF i # 0 /\ verify(password, d[i].value.password) THEN i ELSE 0

\* UserService.authenticate_user.
authenticate_user(d, name, password) ==
    IF authenticate_index(d, name, password) # 0
    THEN d[authenticate_index(d, name, password)].value
    ELSE None

\* load_user that passes over the soft-deleted users.
load_index_live_only(d, user_id) ==
    IF \E i \in 1..Len(d) : d[i].value.alternative_id = user_id /\ ~d[i].value.deleted
    THEN CHOOSE i \in 1..Len(d) :
            /\ d[i].value.alternative_id = user_id /\ ~d[i].value.deleted
            /\ \A j \in 1..(i - 1) :
                  ~(d[j].value.alternative_id = user_id /\ ~d[j].value.deleted)
    ELSE 0

\* The position of the first user whose alternative id is user_id, 0 if none.
load_index(d, user_id) ==
    IF \E i \in 1..Len(d) : d[i].value.alternative_id = user_id
    THEN CHOOSE i \in 1..Len(d) :
            /\ d[i].value.alternative_id = user_id
            /\ \A j \in 1..(i - 1) : d[j].value.alternative_id # user_id
    ELSE 0

\* UserService.load_user.
load_user(d, user_id) ==
    IF load_index(d, user_id) # 0 THEN d[load_index(d, user_id)].value ELSE None

\* The uniqueness test with the deleted flag read the wrong way round.
name_taken_flag_inverted(d, name) ==
    Len(SelectSeq(dict_values(d), LAMBDA x : x.name = name /\ x.deleted)) > 0

\* register_new_user's uniqueness test: some non-deleted user holds the name.
name_taken(d, name) ==
    Len(SelectSeq(dict_values(d), LAMBDA x : name_and_not_deleted(x, name))) > 0

\* The id allocation counting the non-deleted users only.
new_id_live_only(d) ==
    Max({0} \cup {d[i].value.id : i \in {j \in 1..Len(d) : ~d[j].value.deleted}}) + 1

\* register_new_user's id allocation: max([0, *ids]) + 1.
new_id(d) == Max({0} \cup {d[i].value.id : i \in 1..Len(d)}) + 1

\* The key register_new_user stores under: f"{new_id}".
key_of(id) == ToString(id)

\* The status/message dictionary a service method returns.
Response(status, message) == [status |-> status, message |-> message]

MismatchResponse ==
    Response(403, <<"The password and confirmation password did not match.">>)
NotAvailableResponse(name) ==
    Response(403, <<"The username ", name, " is not available.">>)
RegisteredResponse(name) ==
    Response(200, <<"User ", name, " registration successful">>)
PasswordChangeFailedResponse == Response(403, <<"Password Change Failed">>)
PasswordChangedResponse == Response(200, <<"Password Change Successful">>)
DeleteFailedResponse ==
    Response(403, <<"Unable to delete current user, password check failed.">>)
DeletedResponse == Response(200, <<"Current user deleted successfully.">>)
LoginFailedResponse == Response(401, <<"Username or Password Error">>)
LoginResponse == Response(200, <<"login success">>)
LogoutResponse == Response(200, <<"logout success">>)

\* ------------------------------------------------------------ sessions
\* User.get_id: what flask_login keeps in the session for a user.
get_id(user) == user.alternative_id

\* flask_login's current_user of a client: the position of the user its session
\* resolves to through load_user, 0 when it resolves to none (anonymous).
current_index(c) == IF session[c] = 0 THEN 0 ELSE load_index(users, session[c])

current_user(c) == IF current_index(c) = 0 THEN None ELSE users[current_index(c)].value

\* ---------------------------------------------------------- the record of a call
\* What the last completed call returned; uid is the id of the user it created,
\* authenticated or acted for (0: none).
Call(op, resp, uid) ==
    [op |-> op, status |-> resp.status, message |-> resp.message, uid |-> uid]

\* A thread's register_new_user call: pc is "idle" before its first call, "checked"
\* after the uniqueness test passed, "allocated" after new_id was computed and
\* "done" after the call returned (status and message are what it returned, alt
\* the alternative id of the user it inserted).  History: rival is the thread whose
\* call of the same name was between its test and its insert when this call
\* passed its own test ("": none).
Idle ==
    [pc |-> "idle", name |-> "", password |-> "", new_id |-> 0, status |-> 0,
     message |-> <<>>, alt |-> 0, rival |-> ""]

\* The call's record once it returned; the password, a local, is gone.
Returned(r, resp, alt) ==
    [r EXCEPT !.pc = "done", !.password = "", !.status = resp.status,
              !.message = resp.message, !.alt = alt]

\* The inputs of S3Service.upload.  A bucket and a key are strings, written as
\* sequences of characters so that urlunparse can look at the first one.
Fileobjs == {"f1", "f2", "f3"}
Buckets == {<<>>, <<"b">>, <<"c">>}
Keys == {<<>>, <<"k">>, <<"/", "k">>, <<"d", "/", "k">>}

\* What self._client.upload_fileobj does: it returns, or it raises an exception
\* of one of these classes.  EndpointConnectionError is botocore's exception for
\* an endpoint that cannot be reached; it derives from BotoCoreError.
ClientOutcomes == {"ok", "ClientError", "EndpointConnectionError"}

\* The exception classes that "except ClientError" catches.
caught_as_ClientError == {"ClientError"}

\* urllib.parse.urlunparse(("s3", netloc, url, "", "", "")).
urlunparse_s3(netloc, url) ==
    LET slashed == IF url # <<>> /\ url[1] # "/" THEN <<"/">> \o url ELSE url
        rest == IF netloc # <<>> THEN <<"/", "/">> \o netloc \o slashed ELSE url
    IN  <<"s", "3", ":">> \o rest

\* S3Service.as_uri; "bucket or ''" leaves a string as it is.
as_uri(bucket, key) == urlunparse_s3(bucket, key)

\* How a call of upload ended, and the call it was.
S3Call(fileobj, bucket, key, client, outcome, value) ==
    [fileobj |-> fileobj, bucket |-> bucket, key |-> key, client |-> client,
     outcome |-> outcome, value |-> value]

S3Idle == S3Call("", <<>>, <<>>, "", "idle", None)

Init ==
    /\ users = <<>>
    /\ session = [c \in Clients |-> 0]
    /\ entropy = 1
    /\ reg = [t \in Threads |-> Idle]
    /\ last = Call("none", Response(0, <<>>), 0)
    /\ deletedCreds = {}
    /\ s3 = S3Idle

\* The thread other than t whose call for the same name is between its uniqueness
\* test and its insert ("": none).
in_flight(t, name) ==
    IF \E d \in Threads \ {t} : reg[d].pc \in {"checked", "allocated"} /\ reg[d].name = name
    THEN CHOOSE d \in Threads \ {t} : reg[d].pc \in {"checked", "allocated"} /\ reg[d].name = name
    ELSE ""

\* ------------------------------------------------------------- actions
\* change_password, delete_current_user and logout read current_user.password or
\* assign to current_user: they are modelled for a client whose session resolves
\* to a user (an anonymous current_user has no such record in the store).  A call
\* that would add an entry beyond MaxUsers or draw beyond MaxDraws is not taken.
\* register_new_user without the confirmation test of lines 252-256.
register_new_user_no_confirm(name, password, confirm_password) ==
    /\ IF name_taken(users, name)
       THEN /\ last' = Call("register_new_user", NotAvailableResponse(name), 0)
            /\ UNCHANGED <<users, entropy>>
       ELSE /\ Len(users) < MaxUsers
            /\ entropy <= MaxDraws
            /\ users' = dict_set(users, key_of(new_id(users)),
                                 User(new_id(users), uuid4, name, hash(password), FALSE))
            /\ entropy' = entropy + 1
            /\ last' = Call("register_new_user", RegisteredResponse(name), new_id(users))
    /\ UNCHANGED <<session, reg, deletedCreds, s3>>

\* UserService.register_new_user, the whole call.
register_new_user(name, password, confirm_password) ==
    /\ IF password # confirm_password
       THEN /\ last' = Call("register_new_user", MismatchResponse, 0)
            /\ UNCHANGED <<users, entropy>>
       ELSE IF name_taken(users, name)
       THEN /\ last' = Call("register_new_user", NotAvailableResponse(name), 0)
            /\ UNCHANGED <<users, entropy>>
       ELSE /\ Len(users) < MaxUsers
            /\ entropy <= MaxDraws
            /\ users' = dict_set(users, key_of(new_id(users)),
                                 User(new_id(users), uuid4, name, hash(password), FALSE))
            /\ entropy' = entropy + 1
            /\ last' = Call("register_new_user", RegisteredResponse(name), new_id(users))
    /\ UNCHANGED <<session, reg, deletedCreds, s3>>

\* change_password that rotates the alternative id before it tests the password.
change_password_rotate_first(c, current_password, new_password) ==
    /\ current_index(c) # 0
    /\ entropy <= MaxDraws
    /\ LET i == current_index(c)
           u == users[i].value
       IN  IF ~verify(current_password, u.password)
           THEN /\ last' = Call("change_password", PasswordChangeFailedResponse, u.id)
                /\ users' = [users EXCEPT ![i].value.alternative_id = uuid4]
           ELSE /\ users' = [users EXCEPT ![i].value.password = hash(new_password),
                                          ![i].value.alternative_id = uuid4]
                /\ last' = Call("change_password", PasswordChangedResponse, u.id)
    /\ entropy' = entropy + 1
    /\ UNCHANGED <<session, reg, deletedCreds, s3>>

\* change_password without line 196: the alternative id is kept.
change_password_keep_alt(c, current_password, new_password) ==
    /\ current_index(c) # 0
    /\ LET i == current_index(c)
           u == users[i].value
       IN  IF ~verify(current_password, u.password)
           THEN /\ last' = Call("change_password", PasswordChangeFailedResponse, u.id)
                /\ UNCHANGED <<users, entropy>>
           ELSE /\ entropy <= MaxDraws
                /\ users' = [users EXCEPT ![i].value.password = hash(new_password)]
                /\ entropy' = entropy + 1
                /\ last' = Call("change_password", PasswordChangedResponse, u.id)
    /\ UNCHANGED <<session, reg, deletedCreds, s3>>

\* UserService.change_password, called by client c's current user.
change_password(c, current_password, new_password) ==
    /\ current_index(c) # 0
    /\ LET i == current_index(c)
           u == users[i].value
       IN  IF ~verify(current_password, u.password)
           THEN /\ last' = Call("change_password", PasswordChangeFailedResponse, u.id)
                /\ UNCHANGED <<users, entropy>>
           ELSE /\ entropy <= MaxDraws
                /\ users' = [users EXCEPT ![i].value.password = hash(new_password),
                                          ![i].value.alternative_id = uuid4]
                /\ entropy' = entropy + 1
                /\ last' = Call("change_password", PasswordChangedResponse, u.id)
    /\ UNCHANGED <<session, reg, deletedCreds, s3>>

\* delete_current_user that returns success without setting the deleted flag.
delete_current_user_flag_unset(c, password) ==
    /\ current_index(c) # 0
    /\ LET i == current_index(c)
           u == users[i].value
       IN  IF ~verify(password, u.password)
           THEN /\ last' = Call("delete_current_user", DeleteFailedResponse, u.id)
                /\ UNCHANGED <<users, deletedCreds>>
           ELSE /\ UNCHANGED users
                /\ deletedCreds' =
                      deletedCreds \cup {[id |-> u.id, name |-> u.name, password |-> password]}
                /\ last' = Call("delete_current_user", DeletedResponse, u.id)
    /\ UNCHANGED <<session, entropy, reg, s3>>

\* delete_current_user that also blanks the alternative id of the deleted user.
delete_current_user_blank_alt(c, password) ==
    /\ current_index(c) # 0
    /\ LET i == current_index(c)
           u == users[i].value
       IN  IF ~verify(password, u.password)
           THEN /\ last' = Call("delete_current_user", DeleteFailedResponse, u.id)
                /\ UNCHANGED <<users, deletedCreds>>
           ELSE /\ users' = [users EXCEPT ![i].value.deleted = TRUE,
                                          ![i].value.alternative_id = 0]
                /\ deletedCreds' =
                      deletedCreds \cup {[id |-> u.id, name |-> u.name, password |-> password]}
                /\ last' = Call("delete_current_user", DeletedResponse, u.id)
    /\ UNCHANGED <<session, entropy, reg, s3>>

\* UserService.delete_current_user, called by client c's current user.
delete_current_user(c, password) ==
    /\ current_index(c) # 0
    /\ LET i == current_index(c)
           u == users[i].value
       IN  IF ~verify(password, u.password)
           THEN /\ last' = Call("delete_current_user", DeleteFailedResponse, u.id)
                /\ UNCHANGED <<users, deletedCreds>>
           ELSE /\ users' = [users EXCEPT ![i].value.deleted = TRUE]
                /\ deletedCreds' = deletedCreds \cup {[id |-> u.id, name |-> u.name, password |-> password]}
                /\ last' = Call("delete_current_user", DeletedResponse, u.id)
    /\ UNCHANGED <<session, entropy, reg, s3>>

\* A login that tells an unknown name from a wrong password.
login_result_detailed(d, username, password) ==
    LET user == authenticate_user(d, username, password)
    IN  IF user = None
        THEN [user |-> None,
              response |-> IF first_named(d, username) = 0
                           THEN Response(401, <<"Unknown user">>)
                           ELSE Response(401, <<"Wrong password">>)]
        ELSE [user |-> user, response |-> LoginResponse]

\* A login that takes the first live user of the name without verifying the password.
login_result_no_verify(d, username, password) ==
    IF first_named(d, username) = 0
    THEN [user |-> None, response |-> LoginFailedResponse]
    ELSE [user |-> d[first_named(d, username)].value, response |-> LoginResponse]

\* What AuthService.login returns: the user it logs in (None: nobody) and its response.
login_result(d, username, password) ==
    LET user == authenticate_user(d, username, password)
    IN  IF user = None
        THEN [user |-> None, response |-> LoginFailedResponse]
        ELSE [user |-> user, response |-> LoginResponse]

\* AuthService.login, called by client c.
login(c, username, password) ==
    /\ LET r == login_result(users, username, password)
       IN  IF r.user = None
           THEN /\ last' = Call("login", r.response, 0)
                /\ UNCHANGED session
           ELSE /\ session' = [session EXCEPT ![c] = get_id(r.user)]
                /\ last' = Call("login", r.response, r.user.id)
    /\ UNCHANGED <<users, entropy, reg, deletedCreds, s3>>

\* logout that ignores its everywhere argument.
logout_never_rotates(c, everywhere) ==
    /\ current_index(c) # 0
    /\ last' = Call("logout", LogoutResponse, users[current_index(c)].value.id)
    /\ session' = [session EXCEPT ![c] = 0]
    /\ UNCHANGED <<users, entropy, reg, deletedCreds, s3>>

\* AuthService.logout, called by client c's current user.
logout(c, everywhere) ==
    /\ current_index(c) # 0
    /\ LET i == current_index(c)
           u == users[i].value
       IN  /\ IF everywhere
              THEN /\ entropy <= MaxDraws
                   /\ users' = [users EXCEPT ![i].value.alternative_id = uuid4]
                   /\ entropy' = entropy + 1
              ELSE UNCHANGED <<users, entropy>>
           /\ last' = Call("logout", LogoutResponse, u.id)
    /\ session' = [session EXCEPT ![c] = 0]
    /\ UNCHANGED <<reg, deletedCreds, s3>>

\* register_new_user step by step, as a thread that other threads interleave with
\* runs it.  Lines 252-271: the confirmation test and the uniqueness test.
reg_check(t, name, password, confirm_password) ==
    /\ reg[t].pc \in {"idle", "done"}
    /\ LET call == [Idle EXCEPT !.name = name, !.password = password]
           \* a new call of t is no longer the call another thread met
           others == [d \in Threads |->
                        IF reg[d].rival = t THEN [reg[d] EXCEPT !.rival = ""] ELSE reg[d]]
       IN  IF password # confirm_password
           THEN /\ reg' = [others EXCEPT ![t] = Returned(call, MismatchResponse, 0)]
                /\ last' = Call("register_new_user", MismatchResponse, 0)
           ELSE IF name_taken(users, name)
           THEN /\ reg' = [others EXCEPT ![t] = Returned(call, NotAvailableResponse(name), 0)]
                /\ last' = Call("register_new_user", NotAvailableResponse(name), 0)
           ELSE /\ reg' = [others EXCEPT ![t] =
                            [call EXCEPT !.pc = "checked", !.rival = in_flight(t, name)]]
                /\ UNCHANGED last
    /\ UNCHANGED <<users, session, entropy, deletedCreds, s3>>

\* Line 273: new_id = max([0, *ids]) + 1.
reg_alloc(t) ==
    /\ reg[t].pc = "checked"
    /\ reg' = [reg EXCEPT ![t].pc = "allocated", ![t].new_id = new_id(users)]
    /\ UNCHANGED <<users, session, entropy, last, deletedCreds, s3>>

\* Lines 275-282: db["users"][f"{new_id}"] = User(...), and the return.
reg_insert(t) ==
    /\ reg[t].pc = "allocated"
    /\ Len(dict_set(users, key_of(reg[t].new_id), None)) <= MaxUsers
    /\ entropy <= MaxDraws
    /\ users' = dict_set(users, key_of(reg[t].new_id),
                         User(reg[t].new_id, uuid4, reg[t].name, hash(reg[t].password), FALSE))
    /\ entropy' = entropy + 1
    /\ reg' = [reg EXCEPT ![t] = Returned(reg[t], RegisteredResponse(reg[t].name), uuid4)]
    /\ last' = Call("register_new_user", RegisteredResponse(reg[t].name), reg[t].new_id)
    /\ UNCHANGED <<session, deletedCreds, s3>>

Next ==
    \/ \E n \in Names, p \in Passwords, q \in Passwords : register_new_user(n, p, q)
    \/ \E c \in Clients, p \in Passwords, q \in Passwords : change_password(c, p, q)
    \/ \E c \in Clients, p \in Passwords : delete_current_user(c, p)
    \/ \E c \in Clients, n \in Names, p \in Passwords : login(c, n, p)
    \/ \E c \in Clients, e \in BOOLEAN : logout(c, e)

Spec == Init /\ [][Next]_vars

\* S3Service.upload: the client call returns or raises; only a ClientError is
\* caught and turned into None, any other exception leaves upload.
upload(fileobj, bucket, key, client) ==
    /\ s3' = IF client = "ok"
             THEN S3Call(fileobj, bucket, key, client, "return",
                         [uri |-> as_uri(bucket, key)])
             ELSE IF client \in caught_as_ClientError
             THEN S3Call(fileobj, bucket, key, client, "return", None)
             ELSE S3Call(fileobj, bucket, key, client, "raise", [exception |-> client])
    /\ UNCHANGED <<users, session, entropy, reg, last, deletedCreds>>

\* The uploads alone.
NextS3 ==
    \E fileobj \in Fileobjs, bucket \in Buckets, key \in Keys, client \in ClientOutcomes :
        upload(fileobj, bucket, key, client)

SpecS3 == Init /\ [][NextS3]_vars

\* Registrations that run side by side: each thread's register_new_user
\* interleaves step by step with the other thread's.
NextConc ==
    \/ \E t \in Threads, n \in Names, p \in Passwords, q \in Passwords : reg_check(t, n, p, q)
    \/ \E t \in Threads : reg_alloc(t)
    \/ \E t \in Threads : reg_insert(t)

SpecConc == Init /\ [][NextConc]_vars

\* ================================================================ claims

\* C1: in every state reached by whole calls of register_new_user, change_password,
\* delete_current_user, login and logout, at most one non-deleted record holds
\* any given name.
C1_OneNonDeletedPerName ==
    \A n \in Names :
        Cardinality({i \in 1..Len(users) :
                        users[i].value.name = n /\ ~users[i].value.deleted}) <= 1

\* A name held by a soft-deleted record and, again, by a non-deleted one.
C1_Witness ==
    \E i, j \in 1..Len(users) :
        /\ users[i].value.name = users[j].value.name
        /\ users[i].value.deleted
        /\ ~users[j].value.deleted

\* C2: of two register_new_user calls for one name that run side by side (each
\* passed its uniqueness test before the other inserted), exactly one returns 200
\* and the other the 403 "not available" response; the store never holds two
\* non-deleted records of the name, and the record each successful call inserted
\* is still in the store.
C2_ExactlyOneSucceeds ==
    \A t, d \in Threads :
        (/\ t # d
         /\ reg[t].pc = "done"
         /\ reg[d].pc = "done"
         /\ reg[t].rival = d
         /\ reg[d].name = reg[t].name)
        => /\ \/ (reg[t].status = 200 /\ reg[d].status = 403
                    /\ reg[d].message = NotAvailableResponse(reg[d].name).message)
              \/ (reg[d].status = 200 /\ reg[t].status = 403
                    /\ reg[t].message = NotAvailableResponse(reg[t].name).message)
           /\ Cardinality({i \in 1..Len(users) :
                             users[i].value.name = reg[t].name
                             /\ ~users[i].value.deleted}) <= 1
           /\ \A x \in {t, d} :
                reg[x].status = 200 => load_user(users, reg[x].alt) # None

\* Some non-deleted record of the store holds the name.
HeldByLiveUser(d, n) ==
    \E i \in 1..Len(d) : d[i].value.name = n /\ ~d[i].value.deleted

\* C3: register_new_user(name, p, p) returns the 403 "username is not available"
\* response whenever a non-deleted user holds the name, and 200 when every record
\* of that name is soft-deleted (or there is none).
C3_DuplicateRejected ==
    [][\A n \in Names, p \in Passwords :
          register_new_user(n, p, p) =>
             IF HeldByLiveUser(users, n)
             THEN /\ last'.status = 403
                  /\ last'.message = <<"The username ", n, " is not available.">>
             ELSE /\ last'.status = 200
                  /\ last'.message = <<"User ", n, " registration successful">>]_vars

\* A registration has just succeeded for a name a soft-deleted record holds.
C3_Witness ==
    /\ last.op = "register_new_user"
    /\ last.status = 200
    /\ \E i \in 1..Len(users) :
          /\ users[i].value.deleted
          /\ users[i].value.name = dict_get(users, key_of(last.uid)).name

\* C4: when register_new_user(name, password, password) returns 200, an
\* authenticate_user(name, password) that follows at once returns the record this
\* registration created: the one under the new id, which the store did not hold.
C4_AuthenticateAfterRegister ==
    [][\A n \in Names, p \in Passwords :
          (register_new_user(n, p, p) /\ last'.status = 200) =>
             /\ dict_get(users, key_of(last'.uid)) = None
             /\ dict_get(users', key_of(last'.uid)) # None
             /\ authenticate_user(users', n, p) = dict_get(users', key_of(last'.uid))
             /\ authenticate_user(users', n, p).id = last'.uid
             /\ authenticate_user(users', n, p).name = n]_vars

\* A registration has just succeeded while an earlier, soft-deleted record holds
\* the same name and a hash of the same password.
C4_Witness ==
    /\ last.op = "register_new_user"
    /\ last.status = 200
    /\ \E i \in 1..Len(users), p \in Passwords :
          /\ users[i].value.deleted
          /\ users[i].value.name = dict_get(users, key_of(last.uid)).name
          /\ verify(p, users[i].value.password)
          /\ verify(p, dict_get(users, key_of(last.uid)).password)

\* C5: authenticate_user returns None both when no non-deleted user holds the name
\* and when one does but the password does not verify, and login answers the two
\* with the same status and message.
C5_UniformFailure ==
    \A n1 \in Names, n2 \in Names, p1 \in Passwords, p2 \in Passwords :
        (/\ ~HeldByLiveUser(users, n1)
         /\ \E i \in 1..Len(users) :
               /\ users[i].value.name = n2
               /\ ~users[i].value.deleted
               /\ ~verify(p2, users[i].value.password))
        => /\ authenticate_user(users, n1, p1) = None
           /\ authenticate_user(users, n2, p2) = None
           /\ login_result(users, n1, p1) = login_result(users, n2, p2)
           /\ login_result(users, n1, p1).response.status = 401

\* A login has just failed in a store where one name is held by a live user and
\* the other by none.
C5_Witness ==
    /\ last.op = "login"
    /\ last.status = 401
    /\ \E n1 \in Names, n2 \in Names :
          ~HeldByLiveUser(users, n1) /\ HeldByLiveUser(users, n2)

\* C6: change_password with a current_password that does not verify against the
\* current user's hash returns the 403 "Password Change Failed" response and
\* leaves every record of the store as it was.
C6_WrongPasswordChangesNothing ==
    [][\A c \in Clients, p \in Passwords, q \in Passwords :
          (change_password(c, p, q) /\ ~verify(p, current_user(c).password)) =>
             /\ last'.status = 403
             /\ last'.message = <<"Password Change Failed">>
             /\ users' = users]_vars

\* A change_password has just been refused.
C6_Witness ==
    /\ last.op = "change_password"
    /\ last.status = 403

\* C7: after a successful change_password, load_user of the user's old alternative
\* id returns None (not that user, nor any other), and load_user of the new
\* alternative id returns the user.
C7_OldSessionInvalid ==
    [][\A c \in Clients, p \in Passwords, q \in Passwords :
          (change_password(c, p, q) /\ last'.status = 200) =>
             LET old == current_user(c).alternative_id
                 new == dict_get(users', key_of(current_user(c).id))
             IN  /\ load_user(users', old) = None
                 /\ new.alternative_id # old
                 /\ load_user(users', new.alternative_id) = new
                 /\ new.id = current_user(c).id]_vars

\* A password has just been changed and a session still holds an id that resolves
\* to nobody.
C7_Witness ==
    /\ last.op = "change_password"
    /\ last.status = 200
    /\ \E c \in Clients : session[c] # 0 /\ load_user(users, session[c]) = None

\* C8 as stated: after a successful delete_current_user the user's row stays in
\* the store, and authenticate_user with the name and password of that call
\* returns None in every later state, whatever was called in between.
C8_DeletedCredentialsNeverAuthenticate ==
    \A cr \in deletedCreds :
        /\ dict_get(users, key_of(cr.id)) # None
        /\ authenticate_user(users, cr.name, cr.password) = None

\* C8 as amended: after a successful delete_current_user the user's row stays in
\* the store with its deleted flag set, and authenticate_user with the name and
\* password of that call never returns that row: it returns None as long as no
\* non-deleted user holds the name, and otherwise None or the user registered
\* under the name since.
C8_DeletedRowKeptAndNeverReturned ==
    \A cr \in deletedCreds :
        LET row == dict_get(users, key_of(cr.id))
            got == authenticate_user(users, cr.name, cr.password)
        IN  /\ row # None
            /\ row.id = cr.id
            /\ row.name = cr.name
            /\ row.deleted
            /\ got # row
            /\ ~HeldByLiveUser(users, cr.name) => got = None
            /\ got # None => (got.id > cr.id /\ got.name = cr.name /\ ~got.deleted)

\* A user was deleted and its name and password authenticate again, as the user
\* registered under the name since.
C8_Witness ==
    \E cr \in deletedCreds : authenticate_user(users, cr.name, cr.password) # None

\* C9: authenticate_user never returns a record whose deleted flag is set, a login
\* never leaves a session on such a record, and no call clears a deleted flag or
\* removes a deleted record.
C9_DeletedNeverAuthenticates ==
    [][/\ \A n \in Names, p \in Passwords :
             authenticate_user(users', n, p) # None
                => ~authenticate_user(users', n, p).deleted
       /\ \A c \in Clients, n \in Names, p \in Passwords :
             (login(c, n, p) /\ last'.status = 200)
                => /\ ~login_result(users, n, p).user.deleted
                   /\ load_user(users', session'[c]) = login_result(users, n, p).user
       /\ \A i \in 1..Len(users) :
             users[i].value.deleted
                => /\ Len(users') >= i
                   /\ users'[i].key = users[i].key
                   /\ users'[i].value.deleted]_vars

\* Both names are held by soft-deleted users only, and a login has just failed.
C9_Witness ==
    /\ last.op = "login"
    /\ last.status = 401
    /\ \A n \in Names :
          /\ \E i \in 1..Len(users) : users[i].value.name = n /\ users[i].value.deleted
          /\ ~HeldByLiveUser(users, n)

\* C10: a successful register_new_user gives the new record the id
\* max(existing ids) + 1 (1 in an empty store), deleted records counted, and
\* appends it under the key that is the text of that id; so the ids of the store
\* are strictly increasing in registration order and none is used twice.
C10_IdsIncreaseAndAreNeverReused ==
    [][/\ \A n \in Names, p \in Passwords :
             (register_new_user(n, p, p) /\ last'.status = 200) =>
                /\ Len(users') = Len(users) + 1
                /\ \A i \in 1..Len(users) : users'[i] = users[i]
                /\ users'[Len(users')].value.id = last'.uid
                /\ users'[Len(users')].key = ToString(last'.uid)
                /\ \A i \in 1..Len(users) : users[i].value.id < last'.uid
                /\ \/ (Len(users) = 0 /\ last'.uid = 1)
                   \/ \E i \in 1..Len(users) : users[i].value.id = last'.uid - 1
       /\ \A i, j \in 1..Len(users') :
             i < j => users'[i].value.id < users'[j].value.id
       /\ \A i \in 1..Len(users') : users'[i].key = ToString(users'[i].value.id)]_vars

\* A registration has just succeeded in a store whose record of the highest
\* earlier id is soft-deleted.
C10_Witness ==
    /\ last.op = "register_new_user"
    /\ last.status = 200
    /\ last.uid > 1
    /\ dict_get(users, key_of(last.uid - 1)) # None
    /\ dict_get(users, key_of(last.uid - 1)).deleted

\* C11: register_new_user returns a 403 response whenever password and
\* confirm_password differ (also for a free name) or a non-deleted user holds the
\* name, and in both cases the store is as it was.
C11_FailedRegistrationChangesNothing ==
    [][\A n \in Names, p \in Passwords, q \in Passwords :
          (register_new_user(n, p, q) /\ (p # q \/ HeldByLiveUser(users, n))) =>
             /\ last'.status = 403
             /\ p # q =>
                  last'.message = <<"The password and confirmation password did not match.">>
             /\ users' = users]_vars

\* A registration has just been refused for its confirmation in a store that
\* holds a user and in which a name is free.
C11_Witness ==
    /\ last.op = "register_new_user"
    /\ last.message = <<"The password and confirmation password did not match.">>
    /\ Len(users) > 0
    /\ \E n \in Names : ~HeldByLiveUser(users, n)

\* C12: delete_current_user returns the 403 response and changes no record when
\* the password does not verify; otherwise it returns 200 and sets deleted on the
\* current user's record, whose key, id, name, hash and alternative id, like every
\* other record, stay as they were.
C12_DeleteSetsOnlyTheFlag ==
    [][\A c \in Clients, p \in Passwords :
          delete_current_user(c, p) =>
             LET i == current_index(c)
             IN  IF ~verify(p, users[i].value.password)
                 THEN /\ last'.status = 403
                      /\ users' = users
                 ELSE /\ last'.status = 200
                      /\ Len(users') = Len(users)
                      /\ \A j \in 1..Len(users) : j # i => users'[j] = users[j]
                      /\ users'[i].key = users[i].key
                      /\ users'[i].value.deleted
                      /\ users'[i].value.id = users[i].value.id
                      /\ users'[i].value.name = users[i].value.name
                      /\ users'[i].value.password = users[i].value.password
                      /\ users'[i].value.alternative_id = users[i].value.alternative_id]_vars

\* A user has just been deleted in a store that holds another record.
C12_Witness ==
    /\ last.op = "delete_current_user"
    /\ last.status = 200
    /\ Len(users) = 2
    /\ dict_get(users, key_of(last.uid)).deleted

\* C13: logout always ends the caller's session and returns the 200 response.
\* With everywhere set, the current user's alternative id is replaced, so that
\* load_user of the old one returns nobody; with everywhere unset the store is as
\* it was and load_user of the alternative id still returns the user, also for
\* the other sessions that hold it.
C13_LogoutEverywhereRotates ==
    [][\A c \in Clients, e \in BOOLEAN :
          logout(c, e) =>
             LET i == current_index(c)
                 u == users[i].value
             IN  /\ session'[c] = 0
                 /\ \A c2 \in Clients \ {c} : session'[c2] = session[c2]
                 /\ last'.status = 200
                 /\ last'.message = <<"logout success">>
                 /\ IF e
                    THEN /\ load_user(users', u.alternative_id) = None
                         /\ users'[i].value.alternative_id # u.alternative_id
                         /\ users'[i].value.id = u.id
                         /\ \A c2 \in Clients :
                               session[c2] = u.alternative_id
                                  => load_user(users', session'[c2]) # users'[i].value
                    ELSE /\ users' = users
                         /\ load_user(users', u.alternative_id) = u
                         /\ \A c2 \in Clients \ {c} :
                               session[c2] = u.alternative_id
                                  => load_user(users', session'[c2]) = u]_vars

\* After a logout, another session holds an alternative id that resolves to
\* nobody, and the only user still has its first hash: the id was replaced by a
\* logout everywhere, not by a change of password.
C13_Witness ==
    /\ last.op = "logout"
    /\ Len(users) = 1
    /\ users[1].value.password.salt = 1
    /\ users[1].value.alternative_id # 1
    /\ \E c \in Clients : session[c] = 1 /\ load_user(users, session[c]) = None

\* C14: login leaves a session for the caller exactly when authenticate_user
\* returns a record, and that session resolves to that record; when it returns
\* None, login answers 401 and the sessions are as they were.  The store is as it
\* was in both cases.
C14_LoginIffAuthenticated ==
    [][\A c \in Clients, n \in Names, p \in Passwords :
          login(c, n, p) =>
             LET user == authenticate_user(users, n, p)
             IN  /\ users' = users
                 /\ IF user # None
                    THEN /\ last'.status = 200
                         /\ last'.uid = user.id
                         /\ session'[c] # 0
                         /\ load_user(users', session'[c]) = user
                    ELSE /\ last'.status = 401
                         /\ last'.message = <<"Username or Password Error">>
                         /\ session' = session]_vars

\* A login has just succeeded and a session resolves to the user it logged in.
C14_Witness ==
    /\ last.op = "login"
    /\ last.status = 200
    /\ \E c \in Clients : current_index(c) # 0 /\ current_user(c).id = last.uid

\* C15: S3Service.upload returns as_uri(bucket, key) when the client upload
\* succeeds, and returns None, raising nothing, whenever the client upload fails.
C15_UploadNeverRaises ==
    s3.outcome # "idle" =>
       /\ s3.outcome = "return"
       /\ s3.value = IF s3.client = "ok" THEN [uri |-> as_uri(s3.bucket, s3.key)] ELSE None

\* C16: when register_new_user calls for different free names run side by side,
\* every call that returned 200 has its own entry in the store: the two calls got
\* different ids and the record each inserted is still in the store, under its
\* own name.
C16_RegistrationIsAtomic ==
    \A t, d \in Threads :
          (/\ t # d
           /\ reg[t].pc = "done" /\ reg[t].status = 200
           /\ reg[d].pc = "done" /\ reg[d].status = 200
           /\ reg[t].name # reg[d].name)
          => /\ reg[t].new_id # reg[d].new_id
             /\ load_user(users, reg[t].alt) # None
             /\ load_user(users, reg[d].alt) # None
             /\ \E i \in 1..Len(users) : users[i].value.name = reg[t].name
             /\ \E i \in 1..Len(users) : users[i].value.name = reg[d].name

\* C17: a successful delete_current_user keeps the alternative id, and load_user
\* does not look at the deleted flag: load_user of a deleted user's alternative id
\* returns that deleted record, the session that made the call still resolves to
\* it, and only change_password or logout replace a deleted user's alternative id.
C17_DeletedUserStillLoads ==
    [][/\ \A c \in Clients, p \in Passwords :
             (delete_current_user(c, p) /\ last'.status = 200) =>
                LET i == current_index(c)
                IN  /\ users'[i].value.deleted
                    /\ users'[i].value.alternative_id = users[i].value.alternative_id
                    /\ load_user(users', users[i].value.alternative_id) = users'[i].value
                    /\ load_user(users', session'[c]) = users'[i].value
       /\ \A i \in 1..Len(users') :
             users'[i].value.deleted
                => load_user(users', users'[i].value.alternative_id) = users'[i].value
       /\ \A i \in 1..Len(users) :
             (users[i].value.deleted
                /\ users'[i].value.alternative_id # users[i].value.alternative_id)
                => last'.op \in {"change_password", "logout"}]_vars

\* A user has just been deleted and a session still resolves to its record.
C17_Witness ==
    /\ last.op = "delete_current_user"
    /\ last.status = 200
    /\ \E c \in Clients : current_index(c) # 0 /\ current_user(c).deleted

====
